---- MODULE Spec2Model ----
(***************************************************************************)
(* A model of pdf-annotation-merger: merge_pdf_annotations.py (the merge   *)
(* engine: fingerprinting, de-duplication, re-creation in the base         *)
(* document) and xfdf_importer.py (the translation of annotation           *)
(* dictionaries into persisted annotation objects and their import).       *)
(*                                                                         *)
(* Coordinates are fixed-point integers in hundredths of a point, so that  *)
(* round(x, 1) is a real rounding step and not the identity. The y flip   *)
(* of the translation is studied on floats of MantissaBits significant     *)
(* bits, so that page_height - y rounds as a float subtraction does.       *)
(***************************************************************************)
EXTENDS Integers, Sequences, FiniteSets, TLC

\* ---------------------------------------------------------------- bounds

\* The longest input_paths list handed to merge_pdf_annotations.
MaxInputs == 3

\* The longest annotation list handed to an import.
MaxAnnots == 2

\* The two varying coordinates of the rects whose fingerprints are compared
\* range over 0..MaxCoord hundredths of a point.
MaxCoord == 16

\* The significant bits of a float of the flip study (a Python float has 53;
\* the rounding of a subtraction is the same at any width).
MantissaBits == 4

\* The page heights and coordinates that are flipped range over the floats
\* in 0..MaxFlip.
MaxFlip == 40

\* How often the flip is applied in a row (twice for a round trip).
MaxFlips == 2

\* ------------------------------------------------------------- variables

VARIABLES
    \* merge_pdf_annotations: its arguments, locals and the world it acts on
    input_paths,      \* the input_paths argument (paths of the file system FS)
    pc,               \* the statement merge_pdf_annotations is at
    err,              \* the exception that is propagating ("none": none)
    handles,          \* the document handles that are open
    temp_dir,         \* whether the temp directory exists
    base_doc,         \* base_doc: its pages, each a sequence of annotations
    base_keys,        \* base_keys (the keys of the dict)
    all_seen_keys,    \* all_seen_keys
    stats,            \* stats
    ci,               \* index in input_paths of the candidate being processed
    source_doc,       \* source_doc: its pages
    source_keys,      \* source_keys (the keys of the dict)
    unique_keys,      \* unique_keys
    page_num,         \* page_num of the loop of line 310
    ai,               \* position in annots of the loop of line 316 (1-based)
    merged_count,     \* merged_count
    failed_count,     \* failed_count
    output,           \* what was saved to output_path, one entry per save
    copies,           \* history: every call of copy_annotation, in order
    hist,             \* history: source_keys and unique_keys of each candidate
    \* the fingerprints of two annotations (specification SpecRound)
    rpc,              \* "input", then "done" once the keys are built
    rect_a, rect_b,   \* annot.rect of the two annotations
    key_a, key_b,     \* their AnnotationKey
    \* import_xfdf_to_pdf and import_annotations_direct (SpecImport)
    iop,              \* "xfdf" or "direct": which of the two runs
    annotations,      \* the annotation dicts (parsed from the XFDF, or given)
    target,           \* pdf_path, a path of TargetFS
    ipc,              \* the statement the import is at
    ierr,             \* the exception that is propagating ("none": none)
    ihandles,         \* the pikepdf handles that are open
    pdf,              \* pdf.pages: of each page the MediaBox and the Annots
    by_page,          \* the keys of by_page in insertion order
    bi,               \* position in by_page of the loop of line 293/370
    imported_count,   \* imported_count
    ioutput,          \* what was written to output_path, one entry per write
    \* the y flip of convert_pymupdf_to_pdf_annot (specification SpecFlip)
    fh,               \* page_height
    forig,            \* the point (x, y) or rect (x0, y0, x1, y1) given
    fcur,             \* what the flips made so far have turned it into
    flips,            \* the number of flips made
    \* main of merge_pdf_annotations.py (specification SpecCli)
    argv,             \* sys.argv[1:]: the output path, then the input paths
    cpc,              \* "main", "merge" (inside the try) or "exited"
    exit_code         \* the argument of sys.exit (-1: the process runs)

mvars == <<input_paths, pc, err, handles, temp_dir, base_doc, base_keys,
           all_seen_keys, stats, ci, source_doc, source_keys, unique_keys,
           page_num, ai, merged_count, failed_count, output, copies, hist>>

rvars == <<rpc, rect_a, rect_b, key_a, key_b>>

ivars == <<iop, annotations, target, ipc, ierr, ihandles, pdf, by_page, bi,
           imported_count, ioutput>>

fvars == <<fh, forig, fcur, flips>>

cvars == <<argv, cpc, exit_code>>

vars == <<mvars, rvars, ivars, fvars, cvars>>

\* What an operation leaves alone: the state of the other operations.
notMerge == <<rvars, ivars, fvars, cvars>>
notRound == <<mvars, ivars, fvars, cvars>>
notImport == <<mvars, rvars, fvars, cvars>>
notFlip == <<mvars, rvars, ivars, cvars>>
notMain == <<rvars, ivars, fvars>>

\* ------------------------------------------------------------ fingerprint

\* round(x, 0), the precision of round_rect dropped: the nearest whole point.
Round1_ToWholePoint(x) ==
    LET q == x \div 100
        r == x % 100
    IN  IF r < 50 THEN 100 * q
        ELSE IF r > 50 THEN 100 * (q + 1)
        ELSE IF q % 2 = 0 THEN 100 * q ELSE 100 * (q + 1)

\* round(x, 1) of a coordinate x given in hundredths: the nearest multiple of
\* 0.1, a tie going to the even multiple (Python's round). A binary float that
\* prints as a tie lies on one side of it, so the direction of a tie is that of
\* the float's exact value; no property below depends on it.
Round1(x) ==
    LET q == x \div 10
        r == x % 10
    IN  IF r < 5 THEN 10 * q
        ELSE IF r > 5 THEN 10 * (q + 1)
        ELSE IF q % 2 = 0 THEN 10 * q ELSE 10 * (q + 1)

\* round_rect(rect, precision=1)
round_rect(rect) == [i \in 1..4 |-> Round1(rect[i])]

\* AnnotationKey(page, annot_type, rect, content) as built at lines 91-96 and
\* 318-323; two keys are equal when the four fields are (__eq__).
AnnotationKey(page, annot) ==
    [page |-> page,
     annot_type |-> annot.type,
     rect |-> round_rect(annot.rect),
     content |-> annot.content]

\* The keys of the dict extract_annotation_keys returns for a document given
\* as its pages; page numbers are 0-based.
extract_annotation_keys(pages) ==
    UNION {{AnnotationKey(p - 1, pages[p][i]) : i \in DOMAIN pages[p]} :
        p \in DOMAIN pages}

\* ------------------------------------------------------- copy_annotation

\* The kinds whose branch of copy_annotation builds the annotation from the
\* rect (or from the quads, falling back to the rect) alone.
RectKinds == {"FreeText", "Text", "Highlight", "Underline", "StrikeOut",
              "Square", "Circle", "Stamp", "Caret"}

\* copy_annotation without the "if vertices" tests of lines 194 and 199.
copy_annotation_NoVertexTest(annot) ==
    IF annot.raises THEN FALSE
    ELSE IF annot.type \in RectKinds THEN TRUE
    ELSE IF annot.type = "Ink" THEN annot.vertices > 0
    ELSE IF annot.type = "Line" THEN annot.vertices >= 2
    ELSE IF annot.type \in {"Polygon", "PolyLine"} THEN TRUE
    ELSE FALSE

\* What copy_annotation returns for annot: False when an accessor or the
\* constructor raises (line 236), when the kind has no branch (line 208), and
\* when new_annot stays None for want of vertices (line 234).
copy_annotation(annot) ==
    IF annot.raises THEN FALSE
    ELSE IF annot.type \in RectKinds THEN TRUE
    ELSE IF annot.type = "Ink" THEN annot.vertices > 0
    ELSE IF annot.type = "Line" THEN annot.vertices >= 2
    ELSE IF annot.type \in {"Polygon", "PolyLine"} THEN annot.vertices > 0
    ELSE FALSE

\* The annotation copy_annotation adds to the target page; src is the index in
\* input_paths of the document it was copied from (history, not program state;
\* 0 in an annotation a file holds).
NewAnnot(annot, src) ==
    [type |-> annot.type, rect |-> annot.rect, content |-> annot.content,
     vertices |-> annot.vertices, raises |-> FALSE, src |-> src]

\* AddAnnot putting the new annotation in front of the page's annotations.
AddAnnot_InFront(annots, new_annot) == <<new_annot>> \o annots

\* target_page.add_*_annot(...) (lines 144-206): the new annotation becomes
\* the last of the page's annotations.
AddAnnot(annots, new_annot) == Append(annots, new_annot)

\* unique_keys without the subtraction of all_seen_keys.
UniqueKeys_IgnoreSeen(keys, seen) == keys

\* unique_keys = set(source_keys.keys()) - all_seen_keys
UniqueKeys(keys, seen) == keys \ seen

\* all_seen_keys without the add of line 328.
SeenAfterCopy_NeverAdds(seen, key, ok) == seen

\* all_seen_keys with the add of line 328 made after every call.
SeenAfterCopy_AlwaysAdds(seen, key, ok) == seen \cup {key}

\* all_seen_keys after the call of copy_annotation for key returned ok
SeenAfterCopy(seen, key, ok) == IF ok THEN seen \cup {key} ELSE seen

\* ------------------------------------------------------------ file system

Annot(t, r, c, v) ==
    [type |-> t, rect |-> r, content |-> c, vertices |-> v, raises |-> FALSE,
     src |-> 0]

R1 == <<1000, 1000, 5000, 2000>>
R1b == <<1004, 1000, 5000, 1996>>
R2 == <<0, 0, 10000, 10000>>
R3 == <<2000, 3000, 4000, 4500>>

File(status, pages) == [status |-> status, pages |-> pages]

\* The files the paths name. status: "ok"; "unopenable" (fitz.open raises);
\* "unsavable" (fitz.open succeeds and the save of repair_pdf raises).
FS ==
    <<  \* 1: a highlight on page 0, an empty page 1
        File("ok", << <<Annot("Highlight", R1, "foo", 4)>>, <<>> >>),
        \* 2: the same highlight after a re-save (drifted rect), and an ink
        \*    stroke on page 1
        File("ok", << <<Annot("Highlight", R1b, "foo", 4)>>,
                      <<Annot("Ink", R2, "", 3)>> >>),
        \* 3: two squares with equal fingerprints on one page
        File("ok", << <<Annot("Square", R3, "a", 0),
                        Annot("Square", R3, "a", 0)>> >>),
        \* 4: a polygon without vertices and a kind copy_annotation has no
        \*    branch for
        File("ok", << <<Annot("Polygon", R2, "", 0),
                        Annot("Squiggly", R1, "s", 8)>> >>),
        \* 5: a polygon with the fingerprint of 4's, with vertices
        File("ok", << <<Annot("Polygon", R2, "", 3)>> >>),
        \* 6: three pages, a note on the last
        File("ok", << <<>>, <<>>, <<Annot("Text", R3, "n", 0)>> >>),
        \* 7: not a PDF
        File("unopenable", <<>>),
        \* 8: opens, cannot be saved
        File("unsavable", << <<>> >>),
        \* 9: an annotation the library refuses to construct, and a line with
        \*    one vertex
        File("ok", << <<[Annot("FreeText", R3, "x", 0) EXCEPT !.raises = TRUE],
                        Annot("Line", R2, "l", 1)>> >>)
    >>

Paths == DOMAIN FS

SeqsUpTo(S, n) == UNION {[1..k -> S] : k \in 0..n}

\* ------------------------------------------------- merge_pdf_annotations

NoStats ==
    [base_annotations |-> 0, merged_annotations |-> 0,
     failed_annotations |-> 0, duplicate_annotations |-> 0,
     files_processed |-> 0]

MInit ==
    /\ input_paths \in SeqsUpTo(Paths, MaxInputs)
    /\ pc = "start"
    /\ err = "none"
    /\ handles = {}
    /\ temp_dir = FALSE
    /\ base_doc = <<>>
    /\ base_keys = {}
    /\ all_seen_keys = {}
    /\ stats = NoStats
    /\ ci = 0
    /\ source_doc = <<>>
    /\ source_keys = {}
    /\ unique_keys = {}
    /\ page_num = 0
    /\ ai = 0
    /\ merged_count = 0
    /\ failed_count = 0
    /\ output = <<>>
    /\ copies = <<>>
    /\ hist = <<>>

\* Lines 253-254: fewer than two inputs raise before anything is created.
TooFewInputs ==
    /\ pc = "start"
    /\ Len(input_paths) < 2
    /\ pc' = "raised"
    /\ err' = "ValueError"
    /\ UNCHANGED <<input_paths, handles, temp_dir, base_doc, base_keys,
                   all_seen_keys, stats, ci, source_doc, source_keys,
                   unique_keys, page_num, ai, merged_count, failed_count,
                   output, copies, hist>>
    /\ UNCHANGED notMerge

\* Lines 256-265: stats and the temp directory.
Begin ==
    /\ pc = "start"
    /\ Len(input_paths) >= 2
    /\ stats' = [NoStats EXCEPT !.files_processed = Len(input_paths)]
    /\ temp_dir' = TRUE
    /\ pc' = "repair_base"
    /\ UNCHANGED <<input_paths, err, handles, base_doc, base_keys,
                   all_seen_keys, ci, source_doc, source_keys, unique_keys,
                   page_num, ai, merged_count, failed_count, output, copies,
                   hist>>
    /\ UNCHANGED notMerge

\* repair_pdf (lines 50-67) of path: the handles and the exception it leaves.
\* fitz.open raising leaves no handle; doc.save raising skips doc.close(), the
\* finally of line 64 restoring stderr only.
RepairHandles(path) ==
    IF FS[path].status = "unsavable" THEN {"repair"} ELSE {}

RepairErr(path) ==
    IF FS[path].status = "ok" THEN "none" ELSE "CorruptDocument"

\* Line 273: repair_pdf(base_path, temp_dir).
RepairBase ==
    /\ pc = "repair_base"
    /\ handles' = handles \cup RepairHandles(input_paths[1])
    /\ err' = RepairErr(input_paths[1])
    /\ pc' = IF RepairErr(input_paths[1]) = "none" THEN "open_base"
             ELSE "finally"
    /\ UNCHANGED <<input_paths, temp_dir, base_doc, base_keys, all_seen_keys,
                   stats, ci, source_doc, source_keys, unique_keys, page_num,
                   ai, merged_count, failed_count, output, copies, hist>>
    /\ UNCHANGED notMerge

\* Lines 274-282: open the repaired base, extract its keys, seed all_seen_keys.
OpenBase ==
    /\ pc = "open_base"
    /\ handles' = handles \cup {"base"}
    /\ base_doc' = FS[input_paths[1]].pages
    /\ base_keys' = extract_annotation_keys(FS[input_paths[1]].pages)
    /\ stats' = [stats EXCEPT !.base_annotations =
                    Cardinality(extract_annotation_keys(FS[input_paths[1]].pages))]
    /\ all_seen_keys' = extract_annotation_keys(FS[input_paths[1]].pages)
    /\ ci' = 2
    /\ pc' = "next_input"
    /\ UNCHANGED <<input_paths, err, temp_dir, source_doc, source_keys,
                   unique_keys, page_num, ai, merged_count, failed_count,
                   output, copies, hist>>
    /\ UNCHANGED notMerge

\* Line 285: the loop over input_paths[1:]; after the last, line 344.
NextInput ==
    /\ pc = "next_input"
    /\ pc' = IF ci <= Len(input_paths) THEN "repair_source" ELSE "save"
    /\ UNCHANGED <<input_paths, err, handles, temp_dir, base_doc, base_keys,
                   all_seen_keys, stats, ci, source_doc, source_keys,
                   unique_keys, page_num, ai, merged_count, failed_count,
                   output, copies, hist>>
    /\ UNCHANGED notMerge

\* Line 289: repair_pdf(input_path, temp_dir).
RepairSource ==
    /\ pc = "repair_source"
    /\ handles' = handles \cup RepairHandles(input_paths[ci])
    /\ err' = RepairErr(input_paths[ci])
    /\ pc' = IF RepairErr(input_paths[ci]) = "none" THEN "open_source"
             ELSE "finally"
    /\ UNCHANGED <<input_paths, temp_dir, base_doc, base_keys, all_seen_keys,
                   stats, ci, source_doc, source_keys, unique_keys, page_num,
                   ai, merged_count, failed_count, output, copies, hist>>
    /\ UNCHANGED notMerge

\* Lines 294-308: open the repaired candidate, extract its keys, compute
\* unique_keys, reset the counters.
OpenSource ==
    /\ pc = "open_source"
    /\ handles' = handles \cup {"source"}
    /\ source_doc' = FS[input_paths[ci]].pages
    /\ source_keys' = extract_annotation_keys(FS[input_paths[ci]].pages)
    /\ unique_keys' =
          UniqueKeys(extract_annotation_keys(FS[input_paths[ci]].pages),
                     all_seen_keys)
    /\ hist' = Append(hist,
          [keys |-> extract_annotation_keys(FS[input_paths[ci]].pages),
           unique |-> UniqueKeys(
               extract_annotation_keys(FS[input_paths[ci]].pages),
               all_seen_keys)])
    /\ merged_count' = 0
    /\ failed_count' = 0
    /\ page_num' = 0
    /\ pc' = "page"
    /\ UNCHANGED <<input_paths, err, temp_dir, base_doc, base_keys,
                   all_seen_keys, stats, ci, ai, output, copies>>
    /\ UNCHANGED notMerge

\* Lines 310-314: the next page of the candidate. base_doc[page_num] raises
\* IndexError when the base has no such page; nothing catches it before the
\* finally of line 347.
PageStep ==
    /\ pc = "page"
    /\ pc' = IF page_num >= Len(source_doc) THEN "close_source"
             ELSE IF page_num >= Len(base_doc) THEN "finally"
             ELSE "annot"
    /\ err' = IF page_num < Len(source_doc) /\ page_num >= Len(base_doc)
              THEN "IndexError" ELSE err
    /\ ai' = 1
    /\ UNCHANGED <<input_paths, handles, temp_dir, base_doc, base_keys,
                   all_seen_keys, stats, ci, source_doc, source_keys,
                   unique_keys, page_num, merged_count, failed_count, output,
                   copies, hist>>
    /\ UNCHANGED notMerge

\* Lines 316-333, one annotation of the page: its key, the test against
\* unique_keys, the copy, the counters and all_seen_keys.
AnnotStep ==
    /\ pc = "annot"
    /\ ai <= Len(source_doc[page_num + 1])
    /\ LET annot == source_doc[page_num + 1][ai]
           key == AnnotationKey(page_num, annot)
           ok == copy_annotation(annot)
       IN  IF key \in unique_keys
           THEN /\ copies' = Append(copies,
                        [cand |-> ci, key |-> key, ok |-> ok, pos |-> ai])
                /\ base_doc' =
                      IF ok
                      THEN [base_doc EXCEPT ![page_num + 1] =
                               AddAnnot(@, NewAnnot(annot, ci))]
                      ELSE base_doc
                /\ merged_count' = IF ok THEN merged_count + 1
                                   ELSE merged_count
                /\ failed_count' = IF ok THEN failed_count
                                   ELSE failed_count + 1
                /\ all_seen_keys' = SeenAfterCopy(all_seen_keys, key, ok)
           ELSE UNCHANGED <<copies, base_doc, merged_count, failed_count,
                            all_seen_keys>>
    /\ ai' = ai + 1
    /\ UNCHANGED <<input_paths, pc, err, handles, temp_dir, base_keys, stats,
                   ci, source_doc, source_keys, unique_keys, page_num, output,
                   hist>>
    /\ UNCHANGED notMerge

\* Line 316, the annotations of the page exhausted: back to line 310.
EndOfPage ==
    /\ pc = "annot"
    /\ ai > Len(source_doc[page_num + 1])
    /\ page_num' = page_num + 1
    /\ pc' = "page"
    /\ UNCHANGED <<input_paths, err, handles, temp_dir, base_doc, base_keys,
                   all_seen_keys, stats, ci, source_doc, source_keys,
                   unique_keys, ai, merged_count, failed_count, output,
                   copies, hist>>
    /\ UNCHANGED notMerge

\* CloseSource with the save of line 344 moved into the loop.
CloseSource_SavesEachCandidate ==
    /\ pc = "close_source"
    /\ handles' = handles \ {"source"}
    /\ stats' = [stats EXCEPT
          !.merged_annotations = @ + merged_count,
          !.failed_annotations = @ + failed_count,
          !.duplicate_annotations =
              @ + Cardinality(source_keys) - Cardinality(unique_keys)]
    /\ ci' = ci + 1
    /\ pc' = "next_input"
    /\ output' = Append(output, base_doc)
    /\ UNCHANGED <<input_paths, err, temp_dir, base_doc, base_keys,
                   all_seen_keys, source_doc, source_keys, unique_keys,
                   page_num, ai, merged_count, failed_count, copies, hist>>
    /\ UNCHANGED notMerge

\* Lines 335-338: close the candidate and add its counts to stats.
CloseSource ==
    /\ pc = "close_source"
    /\ handles' = handles \ {"source"}
    /\ stats' = [stats EXCEPT
          !.merged_annotations = @ + merged_count,
          !.failed_annotations = @ + failed_count,
          !.duplicate_annotations =
              @ + Cardinality(source_keys) - Cardinality(unique_keys)]
    /\ ci' = ci + 1
    /\ pc' = "next_input"
    /\ UNCHANGED <<input_paths, err, temp_dir, base_doc, base_keys,
                   all_seen_keys, source_doc, source_keys, unique_keys,
                   page_num, ai, merged_count, failed_count, output, copies,
                   hist>>
    /\ UNCHANGED notMerge

\* Line 344: base_doc.save(output_path, ...). The document store either
\* persists the document or raises (WriteError) without having persisted it.
Save ==
    /\ pc = "save"
    /\ \E saved \in BOOLEAN :
          /\ output' = IF saved THEN Append(output, base_doc) ELSE output
          /\ err' = IF saved THEN err ELSE "WriteError"
          /\ pc' = IF saved THEN "close_base" ELSE "finally"
    /\ UNCHANGED <<input_paths, handles, temp_dir, base_doc, base_keys,
                   all_seen_keys, stats, ci, source_doc, source_keys,
                   unique_keys, page_num, ai, merged_count, failed_count,
                   copies, hist>>
    /\ UNCHANGED notMerge

\* Line 345: base_doc.close().
CloseBase ==
    /\ pc = "close_base"
    /\ handles' = handles \ {"base"}
    /\ pc' = "finally"
    /\ UNCHANGED <<input_paths, err, temp_dir, base_doc, base_keys,
                   all_seen_keys, stats, ci, source_doc, source_keys,
                   unique_keys, page_num, ai, merged_count, failed_count,
                   output, copies, hist>>
    /\ UNCHANGED notMerge

\* Lines 347-366: the finally removes the temp directory; then the exception
\* propagates, or stats is returned.
Finally ==
    /\ pc = "finally"
    /\ temp_dir' = FALSE
    /\ pc' = IF err = "none" THEN "done" ELSE "raised"
    /\ UNCHANGED <<input_paths, err, handles, base_doc, base_keys,
                   all_seen_keys, stats, ci, source_doc, source_keys,
                   unique_keys, page_num, ai, merged_count, failed_count,
                   output, copies, hist>>
    /\ UNCHANGED notMerge

MNext ==
    \/ TooFewInputs
    \/ Begin
    \/ RepairBase
    \/ OpenBase
    \/ NextInput
    \/ RepairSource
    \/ OpenSource
    \/ PageStep
    \/ AnnotStep
    \/ EndOfPage
    \/ CloseSource
    \/ Save
    \/ CloseBase
    \/ Finally

\* ------------------------------------------------------------------------
\* The fingerprints of two annotations of one page, kind and content
\* ------------------------------------------------------------------------

\* The rects compared: well-formed, the left edge and the top edge varying.
RectInputs ==
    {<<x0, 0, 1000, 1000 + y1>> : x0 \in 0..MaxCoord, y1 \in 0..MaxCoord}

RIdle ==
    /\ rpc = "idle"
    /\ rect_a = <<>>
    /\ rect_b = <<>>
    /\ key_a = <<>>
    /\ key_b = <<>>

RInit ==
    /\ rpc = "input"
    /\ rect_a \in RectInputs
    /\ rect_b \in RectInputs
    /\ key_a = <<>>
    /\ key_b = <<>>

\* Lines 91-96 for two annotations of page 0, kind Square, content "a".
Fingerprint ==
    /\ rpc = "input"
    /\ key_a' = AnnotationKey(0, Annot("Square", rect_a, "a", 0))
    /\ key_b' = AnnotationKey(0, Annot("Square", rect_b, "a", 0))
    /\ rpc' = "done"
    /\ UNCHANGED <<rect_a, rect_b>>
    /\ UNCHANGED notRound

RNext == Fingerprint

MIdle ==
    /\ input_paths = <<>>
    /\ pc = "idle"
    /\ err = "none"
    /\ handles = {}
    /\ temp_dir = FALSE
    /\ base_doc = <<>>
    /\ base_keys = {}
    /\ all_seen_keys = {}
    /\ stats = NoStats
    /\ ci = 0
    /\ source_doc = <<>>
    /\ source_keys = {}
    /\ unique_keys = {}
    /\ page_num = 0
    /\ ai = 0
    /\ merged_count = 0
    /\ failed_count = 0
    /\ output = <<>>
    /\ copies = <<>>
    /\ hist = <<>>

\* ------------------------------------------------------------------------
\* xfdf_importer.py: the translation of an annotation dict
\* ------------------------------------------------------------------------

\* annot.get(k) is truthy, for a list-valued and for a string-valued key.
HasList(annot, k) == k \in DOMAIN annot /\ Len(annot[k]) > 0
HasStr(annot, k) == k \in DOMAIN annot /\ annot[k] # ""

\* annot.get(k, default)
Get(annot, k, default) == IF k \in DOMAIN annot THEN annot[k] ELSE default

\* Whether the elements of annot['vertices'] are numbers rather than points
\* (the isinstance(..., (list, tuple)) tests of lines 492-534 fail on them).
IsFlat(annot) == Get(annot, "flat", FALSE)

\* annot['type'].lower(), on the spellings that occur.
Lower(t) ==
    CASE t = "Text" -> "text"
      [] t = "Ink" -> "ink"
      [] t = "Polygon" -> "polygon"
      [] t = "PolyLine" -> "polyline"
      [] t = "Sound" -> "sound"
      [] OTHER -> t

\* type_map of create_annotation_dict (lines 143-159)
xfdf_type_map ==
    [text |-> "Text", freetext |-> "FreeText", highlight |-> "Highlight",
     underline |-> "Underline", strikeout |-> "StrikeOut",
     squiggly |-> "Squiggly", ink |-> "Ink", line |-> "Line",
     square |-> "Square", circle |-> "Circle", polygon |-> "Polygon",
     polyline |-> "PolyLine", stamp |-> "Stamp", caret |-> "Caret",
     fileattachment |-> "FileAttachment"]

\* type_map of convert_pymupdf_to_pdf_annot (lines 426-442)
pymupdf_type_map ==
    [Text |-> "Text", FreeText |-> "FreeText", Highlight |-> "Highlight",
     Underline |-> "Underline", StrikeOut |-> "StrikeOut",
     Squiggly |-> "Squiggly", Ink |-> "Ink", Line |-> "Line",
     Square |-> "Square", Circle |-> "Circle", Polygon |-> "Polygon",
     PolyLine |-> "PolyLine", Stamp |-> "Stamp", Caret |-> "Caret",
     FileAttachment |-> "FileAttachment"]

\* type_map.get(annot_type, Name.Text)
Subtype(type_map, annot_type) ==
    IF annot_type \in DOMAIN type_map THEN type_map[annot_type] ELSE "Text"

\* d with d[k] = v when cond holds (the "if ...: annot_dict[k] = v" steps).
PutIf(cond, k, v, d) == IF cond THEN (k :> v) @@ d ELSE d

\* The BS dictionary of lines 205-208, 224-227, 502-505.
BorderStyle(w) == [W |-> w, S |-> "S"]

\* A list of points as the flat array x0, y0, x1, y1, ...
RECURSIVE FlatPoints(_)
FlatPoints(pts) ==
    IF pts = <<>> THEN <<>>
    ELSE <<Head(pts)[1], Head(pts)[2]>> \o FlatPoints(Tail(pts))

\* build_ink_list (lines 237-246): one flat array per stroke.
build_ink_list(strokes) == [i \in DOMAIN strokes |-> FlatPoints(strokes[i])]

\* The fields every annotation dict gets (lines 164-197), for xfdf dicts.
XfdfCommon(annot, subtype) ==
    PutIf(Get(annot, "opacity", 100) < 100, "CA", Get(annot, "opacity", 100),
    PutIf(HasStr(annot, "contents"), "Contents", Get(annot, "contents", ""),
    PutIf(HasStr(annot, "subject"), "Subj", Get(annot, "subject", ""),
    PutIf(HasStr(annot, "title"), "T", Get(annot, "title", ""),
    PutIf(HasStr(annot, "name"), "NM", Get(annot, "name", ""),
    PutIf(HasList(annot, "color"), "C", Get(annot, "color", <<>>),
    [Type |-> "Annot", Subtype |-> subtype, Rect |-> annot.rect,
     F |-> Get(annot, "flags", 4), CreationDate |-> "now", M |-> "now"]))))))

\* create_annotation_dict (lines 136-234): page-space in, page-space out.
create_annotation_dict(annot) ==
    LET annot_type == Lower(annot.type)
        d == XfdfCommon(annot, Subtype(xfdf_type_map, annot_type))
    IN  IF annot_type = "ink"
        THEN PutIf(TRUE, "BS", BorderStyle(Get(annot, "width", 100)),
             PutIf(Len(build_ink_list(Get(annot, "inklist", <<>>))) > 0,
                   "InkList", build_ink_list(Get(annot, "inklist", <<>>)), d))
        ELSE IF annot_type = "line"
        THEN PutIf(HasList(annot, "start") /\ HasList(annot, "end"), "L",
                   Get(annot, "start", <<>>) \o Get(annot, "end", <<>>), d)
        ELSE IF annot_type \in {"highlight", "underline", "strikeout",
                                "squiggly"}
        THEN PutIf(HasList(annot, "quadpoints"), "QuadPoints",
                   Get(annot, "quadpoints", <<>>), d)
        ELSE IF annot_type \in {"polygon", "polyline"}
        THEN PutIf(HasList(annot, "vertices"), "Vertices",
                   Get(annot, "vertices", <<>>), d)
        ELSE IF annot_type \in {"square", "circle"}
        THEN PutIf(TRUE, "BS", BorderStyle(Get(annot, "width", 100)), d)
        ELSE IF annot_type = "text"
        THEN PutIf(TRUE, "Open", FALSE, PutIf(TRUE, "Name", "Comment", d))
        ELSE d

\* FlipFlat without the flip: the points as they come.
RECURSIVE FlipFlat_KeepsY(_, _)
FlipFlat_KeepsY(pts, page_height) ==
    IF pts = <<>> THEN <<>>
    ELSE (IF Len(Head(pts)) >= 2
          THEN <<Head(pts)[1], Head(pts)[2]>>
          ELSE <<>>) \o FlipFlat_KeepsY(Tail(pts), page_height)

\* The points of a list that are pairs (isinstance(...) and len(v) >= 2), as
\* the flat array x0, page_height - y0, x1, page_height - y1, ...
RECURSIVE FlipFlat(_, _)
FlipFlat(pts, page_height) ==
    IF pts = <<>> THEN <<>>
    ELSE (IF Len(Head(pts)) >= 2
          THEN <<Head(pts)[1], page_height - Head(pts)[2]>>
          ELSE <<>>) \o FlipFlat(Tail(pts), page_height)

\* The fields every annotation dict gets (lines 446-486), for PyMuPDF dicts.
PymupdfCommon(annot, subtype, page_height) ==
    PutIf(Get(annot, "opacity", 100) < 100, "CA", Get(annot, "opacity", 100),
    PutIf(HasStr(annot, "content"), "Contents", Get(annot, "content", ""),
    PutIf(HasStr(annot, "subject"), "Subj", Get(annot, "subject", ""),
    PutIf(HasStr(annot, "author"), "T", Get(annot, "author", ""),
    PutIf(HasList(annot, "stroke_color") \/ HasList(annot, "fill_color"), "C",
          IF HasList(annot, "stroke_color")
          THEN Get(annot, "stroke_color", <<>>)
          ELSE Get(annot, "fill_color", <<>>),
    [Type |-> "Annot", Subtype |-> subtype,
     Rect |-> <<annot.rect[1], page_height - annot.rect[4],
                annot.rect[3], page_height - annot.rect[2]>>,
     F |-> Get(annot, "flags", 4), CreationDate |-> "now", M |-> "now"])))))

\* convert_pymupdf_to_pdf_annot (lines 417-541): screen-space in, page-space
\* out. vertices holds points (of an Ink: strokes of points) or, when
\* IsFlat, numbers; numbers are no points to the quad and vertex loops, and
\* the Line branch slices them into v[:2] and v[2:4].
convert_pymupdf_to_pdf_annot(annot, page_height) ==
    LET annot_type == annot.type
        d == PymupdfCommon(annot, Subtype(pymupdf_type_map, annot_type),
                           page_height)
        v == Get(annot, "vertices", <<>>)
        pts == IF IsFlat(annot) THEN <<>> ELSE v
    IN  IF annot_type = "Ink"
        THEN PutIf(TRUE, "BS", BorderStyle(Get(annot, "border_width", 100)),
             PutIf(Len(v) > 0, "InkList",
                   [i \in DOMAIN v |-> FlipFlat(v[i], page_height)], d))
        ELSE IF annot_type = "Line"
        THEN PutIf(Len(v) >= 2, "L",
                   IF Len(v) >= 4 /\ IsFlat(annot)
                   THEN <<v[1], page_height - v[2],
                          v[3], page_height - v[4]>>
                   ELSE IF Len(v) >= 2
                   THEN <<v[1][1], page_height - v[1][2],
                          v[2][1], page_height - v[2][2]>>
                   ELSE <<>>, d)
        ELSE IF annot_type \in {"Highlight", "Underline", "StrikeOut",
                                "Squiggly"}
        THEN PutIf(Len(FlipFlat(pts, page_height)) > 0, "QuadPoints",
                   FlipFlat(pts, page_height), d)
        ELSE IF annot_type \in {"Polygon", "PolyLine"}
        THEN PutIf(Len(FlipFlat(pts, page_height)) > 0, "Vertices",
                   FlipFlat(pts, page_height), d)
        ELSE IF annot_type = "Text"
        THEN PutIf(TRUE, "Open", FALSE, PutIf(TRUE, "Name", "Comment", d))
        ELSE d

\* Whether translating annot raises: rect[3] of a rect of fewer than four
\* numbers (line 450), a stroke that is a number (line 493), end[0] of the
\* empty slice v[2:4] (line 514); create_annotation_dict copies what it is
\* given.
TranslateRaises(op, annot) ==
    /\ op = "direct"
    /\ \/ Len(annot.rect) < 4
       \/ /\ IsFlat(annot)
          /\ \/ annot.type = "Ink" /\ Len(Get(annot, "vertices", <<>>)) > 0
             \/ annot.type = "Line"
                   /\ Len(Get(annot, "vertices", <<>>)) \in {2, 3}

\* The persisted object of annot on a page of height page_height.
Translate(op, annot, page_height) ==
    IF op = "xfdf" THEN create_annotation_dict(annot)
    ELSE convert_pymupdf_to_pdf_annot(annot, page_height)

\* ------------------------------------------------------------------------
\* xfdf_importer.py: import_xfdf_to_pdf and import_annotations_direct
\* ------------------------------------------------------------------------

\* What parse_xfdf sets for every element (lines 50-61).
XfdfElem(tag, page, rect) ==
    [type |-> tag, page |-> page, rect |-> rect, name |-> "",
     color |-> <<100, 100, 0>>, title |-> "", subject |-> "",
     opacity |-> 100, width |-> 100, flags |-> 4]

\* The annotation dicts parse_xfdf can hand over.
XfdfPool ==
    { ("contents" :> "note") @@ XfdfElem("text", 0, <<10, 10, 30, 30>>),
      ("inklist" :> << <<<<1, 1>>, <<2, 2>>, <<3, 3>>>> >>) @@
          XfdfElem("ink", 0, <<0, 0, 100, 100>>),
      XfdfElem("polygon", 0, <<0, 0, 50, 50>>),
      ("vertices" :> <<0, 0, 50, 0, 25, 50>>) @@
          XfdfElem("Polygon", 1, <<0, 0, 50, 50>>),
      XfdfElem("sound", 0, <<5, 5, 25, 25>>),
      XfdfElem("square", 5, <<0, 0, 10, 10>>),
      ("start" :> <<1, 2>>) @@ ("end" :> <<30, 40>>) @@
          XfdfElem("line", 1, <<1, 2, 30, 40>>),
      ("quadpoints" :> <<10, 20, 50, 20, 10, 10, 50, 10>>) @@
          [XfdfElem("highlight", 0, <<10, 10, 50, 20>>)
              EXCEPT !.opacity = 50, !.title = "ann"] }

\* A dict in the format of the PyMuPDF extraction.
PymupdfElem(type, page, rect) == [type |-> type, page |-> page, rect |-> rect]

\* The annotation dicts import_annotations_direct can be handed.
PymupdfPool ==
    { ("content" :> "note") @@ PymupdfElem("Text", 0, <<10, 10, 30, 30>>),
      ("vertices" :> << <<<<1, 1>>, <<2, 2>>, <<3, 3>>>> >>) @@
          PymupdfElem("Ink", 0, <<0, 0, 100, 100>>),
      ("vertices" :> <<>>) @@ PymupdfElem("Polygon", 0, <<0, 0, 50, 50>>),
      ("vertices" :> << <<0, 0>>, <<50, 0>>, <<25, 50>> >>) @@
          PymupdfElem("PolyLine", 1, <<0, 0, 50, 50>>),
      PymupdfElem("Popup", 0, <<5, 5, 25, 25>>),
      PymupdfElem("Square", 5, <<0, 0, 10, 10>>),
      ("vertices" :> << <<1, 2>>, <<30, 40>> >>) @@
          ("stroke_color" :> <<100, 0, 0>>) @@
          PymupdfElem("Line", 1, <<1, 2, 30, 40>>),
      ("vertices" :> <<5, 6, 70, 80>>) @@ ("flat" :> TRUE) @@
          PymupdfElem("Line", 0, <<5, 6, 70, 80>>),
      ("vertices" :> << <<10, 10>>, <<50, 10>>, <<10, 20>>, <<50, 20>> >>) @@
          PymupdfElem("Highlight", 0, <<10, 10, 50, 20>>),
      PymupdfElem("Circle", 0, <<7, 7>>) }

Pool(op) == IF op = "xfdf" THEN XfdfPool ELSE PymupdfPool

\* An annotation object a target document already holds.
OldAnnot ==
    [Type |-> "Annot", Subtype |-> "Highlight", Rect |-> <<10, 700, 50, 710>>,
     F |-> 4, CreationDate |-> "old", M |-> "old"]

\* A second one, of another kind.
OldNote ==
    [Type |-> "Annot", Subtype |-> "Text", Rect |-> <<20, 600, 40, 620>>,
     F |-> 4, CreationDate |-> "old", M |-> "old", Contents |-> "kept"]

\* A page: its MediaBox (<<>>: none) and the annotation objects of its Annots
\* array (<<>>: no Annots entry, or an empty array).
Page(mediabox, annots) ==
    [mediabox |-> mediabox, annots |-> annots, annots_is_array |-> TRUE]

\* A page whose Annots entry is not an array but a value that cannot be
\* iterated, and so holds no annotation.
OddPage(mediabox) ==
    [mediabox |-> mediabox, annots |-> <<>>, annots_is_array |-> FALSE]

\* The documents pdf_path can name: status "ok" or "unopenable"
\* (pikepdf.open raises), and the pages.
TargetFS ==
    <<  \* 1: two pages, an annotation on the first, no MediaBox on the second
        File("ok", <<Page(<<0, 0, 612, 792>>, <<OldAnnot, OldNote>>),
                     Page(<<>>, <<>>)>>),
        \* 2: one page of height 100
        File("ok", <<Page(<<0, 0, 100, 100>>, <<>>)>>),
        \* 3: not a PDF
        File("unopenable", <<>>),
        \* 4: two pages whose Annots entries are not arrays
        File("ok", <<OddPage(<<0, 0, 612, 792>>),
                     OddPage(<<0, 0, 612, 792>>)>>)
    >>

\* The keys of by_page in insertion order: the page numbers of the
\* annotations in order of first occurrence (lines 285-288).
RECURSIVE PageOrder(_, _)
PageOrder(annots, seen) ==
    IF annots = <<>> THEN <<>>
    ELSE IF Head(annots).page \in seen THEN PageOrder(Tail(annots), seen)
    ELSE <<Head(annots).page>> \o
         PageOrder(Tail(annots), seen \cup {Head(annots).page})

\* by_page[page_num]: the annotations of the page, in input order.
PageAnnots(annots, pn) ==
    SelectSeq(annots, LAMBDA a : a.page = pn)

\* ExistingAnnots finding nothing on any page.
ExistingAnnots_None(page) == <<>>

\* annots_array of lines 300-308 and 384-393: the items of the page's Annots;
\* none when there is no Annots or iterating it raises TypeError.
ExistingAnnots(page) == IF page.annots_is_array THEN page.annots ELSE <<>>

\* page[Name.Annots] = Array(annots_array) (lines 323 and 409)
SetAnnots(page, annots_array) ==
    [page EXCEPT !.annots = annots_array, !.annots_is_array = TRUE]

\* page_height of lines 377-381.
PageHeight(page) ==
    IF Len(page.mediabox) > 0 THEN page.mediabox[4] - page.mediabox[2]
    ELSE 792

IIdle ==
    /\ iop = "none"
    /\ annotations = <<>>
    /\ target = 0
    /\ ipc = "idle"
    /\ ierr = "none"
    /\ ihandles = {}
    /\ pdf = <<>>
    /\ by_page = <<>>
    /\ bi = 0
    /\ imported_count = 0
    /\ ioutput = <<>>

IInit ==
    /\ iop \in {"xfdf", "direct"}
    /\ annotations \in SeqsUpTo(Pool(iop), MaxAnnots)
    /\ target \in DOMAIN TargetFS
    /\ ipc = "start"
    /\ ierr = "none"
    /\ ihandles = {}
    /\ pdf = <<>>
    /\ by_page = <<>>
    /\ bi = 0
    /\ imported_count = 0
    /\ ioutput = <<>>

\* Lines 275-279 and 355-358: nothing to import, the file is copied.
CopyFile ==
    /\ ipc = "start"
    /\ annotations = <<>>
    /\ ioutput' = Append(ioutput, TargetFS[target].pages)
    /\ ipc' = "done"
    /\ UNCHANGED <<iop, annotations, target, ierr, ihandles, pdf, by_page, bi,
                   imported_count>>
    /\ UNCHANGED notImport

\* Lines 282-290 and 360-368: open the target and group by page.
OpenTarget ==
    /\ ipc = "start"
    /\ annotations # <<>>
    /\ IF TargetFS[target].status = "ok"
       THEN /\ ihandles' = ihandles \cup {"pdf"}
            /\ pdf' = TargetFS[target].pages
            /\ by_page' = PageOrder(annotations, {})
            /\ bi' = 1
            /\ ipc' = "page"
            /\ UNCHANGED ierr
       ELSE /\ ierr' = "PdfError"
            /\ ipc' = "raised"
            /\ UNCHANGED <<ihandles, pdf, by_page, bi>>
    /\ UNCHANGED <<iop, annotations, target, imported_count, ioutput>>
    /\ UNCHANGED notImport

\* Lines 293-323 and 370-409, one key of by_page: skip a page the document
\* does not have; otherwise translate the page's annotations, append them to
\* the existing Annots and store the array. A translation that raises ends
\* the import there.
ImportPage ==
    /\ ipc = "page"
    /\ bi <= Len(by_page)
    /\ LET pn == by_page[bi]
           page_annots == PageAnnots(annotations, pn)
       IN  IF pn >= Len(pdf)
           THEN /\ bi' = bi + 1
                /\ UNCHANGED <<pdf, imported_count, ierr, ipc>>
           ELSE IF \E i \in DOMAIN page_annots :
                      TranslateRaises(iop, page_annots[i])
           THEN /\ ierr' = "IndexError"
                /\ ipc' = "raised"
                /\ UNCHANGED <<pdf, imported_count, bi>>
           ELSE /\ pdf' = [pdf EXCEPT ![pn + 1] =
                      SetAnnots(@, ExistingAnnots(@) \o
                          [i \in DOMAIN page_annots |->
                              Translate(iop, page_annots[i],
                                        PageHeight(pdf[pn + 1]))])]
                /\ imported_count' = imported_count + Len(page_annots)
                /\ bi' = bi + 1
                /\ UNCHANGED <<ierr, ipc>>
    /\ UNCHANGED <<iop, annotations, target, ihandles, by_page, ioutput>>
    /\ UNCHANGED notImport

\* Lines 325-330 and 411: pdf.save(output_path), which persists the document
\* or raises.
SaveTarget ==
    /\ ipc = "page"
    /\ bi > Len(by_page)
    /\ \E saved \in BOOLEAN :
          /\ ioutput' = IF saved THEN Append(ioutput, pdf) ELSE ioutput
          /\ ierr' = IF saved THEN ierr ELSE "WriteError"
          /\ ipc' = IF saved THEN "close" ELSE "raised"
    /\ UNCHANGED <<iop, annotations, target, ihandles, pdf, by_page, bi,
                   imported_count>>
    /\ UNCHANGED notImport

\* Lines 331-333 and 412-414: pdf.close() and return imported_count.
CloseTarget ==
    /\ ipc = "close"
    /\ ihandles' = ihandles \ {"pdf"}
    /\ ipc' = "done"
    /\ UNCHANGED <<iop, annotations, target, ierr, pdf, by_page, bi,
                   imported_count, ioutput>>
    /\ UNCHANGED notImport

INext ==
    \/ CopyFile
    \/ OpenTarget
    \/ ImportPage
    \/ SaveTarget
    \/ CloseTarget

\* ------------------------------------------------------------------------
\* xfdf_importer.py: the y flip of convert_pymupdf_to_pdf_annot on floats
\* ------------------------------------------------------------------------

\* Floats are the integers m * 2^e with m < 2^MantissaBits. The unit in the
\* last place of the float format at magnitude x >= 0.
RECURSIVE UlpFrom(_, _)
UlpFrom(x, u) == IF x < (2 ^ MantissaBits) * u THEN u ELSE UlpFrom(x, 2 * u)

Ulp(x) == UlpFrom(x, 1)

\* x >= 0 rounded to a multiple of u, a tie to the even multiple.
RoundTo(x, u) ==
    LET q == x \div u
        r == x % u
    IN  IF 2 * r < u THEN q * u
        ELSE IF 2 * r > u THEN (q + 1) * u
        ELSE IF q % 2 = 0 THEN q * u
        ELSE (q + 1) * u

\* The float nearest to x (round to nearest, ties to even): the result of a
\* float operation whose exact value is x.
Fl(x) == IF x >= 0 THEN RoundTo(x, Ulp(x)) ELSE 0 - RoundTo(0 - x, Ulp(0 - x))

\* page_height - y (lines 452, 453, 500, 513, 514, 524, 534), on floats.
FlipY(y, page_height) == Fl(page_height - y)

\* [x, page_height - y] of a point (lines 500, 524, 534).
FlipPoint(pt, page_height) == <<pt[1], FlipY(pt[2], page_height)>>

\* FlipRect flipping each corner in place: y0 and y1 keep their slots.
FlipRect_InPlace(rect, page_height) ==
    <<rect[1], FlipY(rect[2], page_height),
      rect[3], FlipY(rect[4], page_height)>>

\* pdf_rect of lines 449-454.
FlipRect(rect, page_height) ==
    <<rect[1], FlipY(rect[4], page_height),
      rect[3], FlipY(rect[2], page_height)>>

\* The floats in 0..MaxFlip.
Floats == {x \in 0..MaxFlip : Fl(x) = x}

\* The x coordinates of the points and rects that are flipped.
FlipXs == {0, 7}

\* The points and the well-formed rects that are flipped.
FlipInputs ==
    {<<x, y>> : x \in FlipXs, y \in Floats} \cup
    {r \in FlipXs \X Floats \X FlipXs \X Floats :
        r[1] <= r[3] /\ r[2] <= r[4]}

FIdle ==
    /\ fh = 0
    /\ forig = <<>>
    /\ fcur = <<>>
    /\ flips = MaxFlips

FInit ==
    /\ fh \in Floats
    /\ forig \in FlipInputs
    /\ fcur = forig
    /\ flips = 0

\* One flip of the point or rect on the page of height fh.
Flip ==
    /\ flips < MaxFlips
    /\ fcur' = IF Len(fcur) = 2 THEN FlipPoint(fcur, fh)
               ELSE FlipRect(fcur, fh)
    /\ flips' = flips + 1
    /\ UNCHANGED <<fh, forig>>
    /\ UNCHANGED notFlip

FNext == Flip

\* ------------------------------------------------------------------------
\* merge_pdf_annotations.py: main
\* ------------------------------------------------------------------------

\* The working directory of the process.
Cwd == "/cwd"

\* A path as written on the command line: the directory part ("" when the
\* path is relative) and the file name. The files of FS lie in Cwd under
\* their numbers as names; 0 names no file.
Path(dir, name) == [dir |-> dir, name |-> name]

\* os.path.abspath(path)
abspath(path) == Path(IF path.dir = "" THEN Cwd ELSE path.dir, path.name)

\* os.path.exists(path)
exists(path) == abspath(path).dir = Cwd /\ path.name \in DOMAIN FS

\* The paths that occur on the command lines.
CliDirs == {"", Cwd, "/tmp"}

CliNames == {0, 1, 6}

CliPaths == {Path(d, n) : d \in CliDirs, n \in CliNames}

\* The collision test comparing the paths as they are written.
Collides_AsWritten(output_path, paths) ==
    \E i \in DOMAIN paths : paths[i] = output_path

\* Lines 386-390: some input has the absolute path of the output.
Collides(output_path, paths) ==
    \E i \in DOMAIN paths : abspath(paths[i]) = abspath(output_path)

CIdle ==
    /\ argv = <<>>
    /\ cpc = "idle"
    /\ exit_code = -1

CInit ==
    /\ argv \in SeqsUpTo(CliPaths, MaxInputs + 1)
    /\ cpc = "main"
    /\ exit_code = -1

\* Lines 370-374: len(sys.argv) < 4.
MainUsage ==
    /\ cpc = "main"
    /\ Len(argv) + 1 < 4
    /\ exit_code' = 1
    /\ cpc' = "exited"
    /\ UNCHANGED <<argv, mvars>>
    /\ UNCHANGED notMain

\* Lines 376-383: an input path that does not exist.
MainNotFound ==
    /\ cpc = "main"
    /\ Len(argv) + 1 >= 4
    /\ \E i \in DOMAIN Tail(argv) : ~exists(Tail(argv)[i])
    /\ exit_code' = 1
    /\ cpc' = "exited"
    /\ UNCHANGED <<argv, mvars>>
    /\ UNCHANGED notMain

\* Lines 385-390: the output would overwrite an input.
MainCollision ==
    /\ cpc = "main"
    /\ Len(argv) + 1 >= 4
    /\ \A i \in DOMAIN Tail(argv) : exists(Tail(argv)[i])
    /\ Collides(Head(argv), Tail(argv))
    /\ exit_code' = 1
    /\ cpc' = "exited"
    /\ UNCHANGED <<argv, mvars>>
    /\ UNCHANGED notMain

\* Lines 392-393: the call merge_pdf_annotations(output_path, input_paths);
\* opening a path opens the file it names.
MainCall ==
    /\ cpc = "main"
    /\ Len(argv) + 1 >= 4
    /\ \A i \in DOMAIN Tail(argv) : exists(Tail(argv)[i])
    /\ ~Collides(Head(argv), Tail(argv))
    /\ input_paths' = [i \in DOMAIN Tail(argv) |-> Tail(argv)[i].name]
    /\ pc' = "start"
    /\ cpc' = "merge"
    /\ UNCHANGED <<err, handles, temp_dir, base_doc, base_keys, all_seen_keys,
                   stats, ci, source_doc, source_keys, unique_keys, page_num,
                   ai, merged_count, failed_count, output, copies, hist>>
    /\ UNCHANGED <<argv, exit_code>>
    /\ UNCHANGED notMain

\* Line 394: sys.exit(0) after the call returned; the SystemExit it raises is
\* no Exception and passes the except clause.
ExitOk ==
    /\ cpc = "merge"
    /\ pc = "done"
    /\ exit_code' = 0
    /\ cpc' = "exited"
    /\ UNCHANGED <<argv, mvars>>
    /\ UNCHANGED notMain

\* Lines 395-397: the call raised; sys.exit(1).
ExitError ==
    /\ cpc = "merge"
    /\ pc = "raised"
    /\ exit_code' = 1
    /\ cpc' = "exited"
    /\ UNCHANGED <<argv, mvars>>
    /\ UNCHANGED notMain

\* main and the call it makes. TooFewInputs is not among the steps: main
\* calls with two inputs or more.
CNext ==
    \/ MainUsage
    \/ MainNotFound
    \/ MainCollision
    \/ MainCall
    \/ Begin
    \/ RepairBase
    \/ OpenBase
    \/ NextInput
    \/ RepairSource
    \/ OpenSource
    \/ PageStep
    \/ AnnotStep
    \/ EndOfPage
    \/ CloseSource
    \/ Save
    \/ CloseBase
    \/ Finally
    \/ ExitOk
    \/ ExitError

\* ------------------------------------------------------------------------
\* Specifications
\* ------------------------------------------------------------------------

\* merge_pdf_annotations on every input_paths of at most MaxInputs paths.
Init == MInit /\ RIdle /\ IIdle /\ FIdle /\ CIdle

Next == MNext

Spec == Init /\ [][Next]_vars

\* The fingerprints of every two rects of RectInputs.
InitRound == RInit /\ MIdle /\ IIdle /\ FIdle /\ CIdle

NextRound == RNext

SpecRound == InitRound /\ [][NextRound]_vars

\* Both imports on every annotation list of at most MaxAnnots dicts.
InitImport == IInit /\ MIdle /\ RIdle /\ FIdle /\ CIdle

NextImport == INext

SpecImport == InitImport /\ [][NextImport]_vars

\* The flip, once and again, of every point and rect of FlipInputs on every
\* page height of Floats.
InitFlip == FInit /\ MIdle /\ RIdle /\ IIdle /\ CIdle

NextFlip == FNext

SpecFlip == InitFlip /\ [][NextFlip]_vars

\* main on every command line of at most MaxInputs + 1 paths of CliPaths.
InitCli == CInit /\ MIdle /\ RIdle /\ IIdle /\ FIdle

NextCli == CNext

SpecCli == InitCli /\ [][NextCli]_vars

\* ------------------------------------------------------------------------
\* Properties of merge_pdf_annotations (specification Spec)
\* ------------------------------------------------------------------------

Returned == pc = "done"

RECURSIVE SumSeq(_)
SumSeq(s) == IF s = <<>> THEN 0 ELSE Head(s) + SumSeq(Tail(s))

\* The annotations of a document, page after page.
RECURSIVE Flatten(_)
Flatten(pages) ==
    IF pages = <<>> THEN <<>> ELSE Head(pages) \o Flatten(Tail(pages))

Records(path) == Flatten(FS[path].pages)

\* C1: merging a document with itself as the sole candidate re-creates
\* nothing (merged_annotations = 0, failed_annotations = 0, no call of
\* copy_annotation, the base's pages as they were) and reports
\* duplicate_annotations = base_annotations.
C1_Idempotence ==
    (Returned /\ Len(input_paths) = 2 /\ input_paths[1] = input_paths[2]) =>
        /\ stats.merged_annotations = 0
        /\ stats.failed_annotations = 0
        /\ stats.duplicate_annotations = stats.base_annotations
        /\ copies = <<>>
        /\ base_doc = FS[input_paths[1]].pages

C1_Witness ==
    /\ Returned
    /\ Len(input_paths) = 2
    /\ input_paths[1] = input_paths[2]
    /\ stats.base_annotations >= 2
    /\ stats.duplicate_annotations >= 2

\* The calls of copy_annotation made while candidate c was processed, for key.
CopiesOf(c, key) ==
    {k \in DOMAIN copies : copies[k].cand = c /\ copies[k].key = key}

\* C2 as stated: a fingerprint absent from the base that occurs in candidate
\* i and in a later candidate j is, while j is processed, not copied again
\* but counted as a duplicate (it is in source_keys and not in unique_keys).
C2_LaterOccurrenceIsDuplicate ==
    \A i, j \in DOMAIN hist :
        i < j =>
            \A f \in (hist[i].keys \cap hist[j].keys) \ base_keys :
                /\ f \notin hist[j].unique
                /\ CopiesOf(j + 1, f) = {}

\* C2 as amended: once a fingerprint has been re-created (copy_annotation
\* returned True) while candidate i was processed, every later candidate j
\* that holds it counts it as a duplicate and copies nothing for it.
C2_DuplicateOnceMerged ==
    \A k \in DOMAIN copies :
        copies[k].ok =>
            \A j \in DOMAIN hist :
                (j + 1 > copies[k].cand /\ copies[k].key \in hist[j].keys) =>
                    /\ copies[k].key \notin hist[j].unique
                    /\ CopiesOf(j + 1, copies[k].key) = {}

C2_Witness ==
    /\ Returned
    /\ \E k \in DOMAIN copies :
          /\ copies[k].ok
          /\ copies[k].cand = 2
          /\ Len(hist) = 2
          /\ copies[k].key \in hist[2].keys
    /\ stats.duplicate_annotations >= 1

\* C3: of the annotations with one fingerprint, only the first encountered
\* is re-created: no fingerprint is re-created twice.
C3_OneRecreationPerFingerprint ==
    \A k, m \in DOMAIN copies :
        (k # m /\ copies[k].key = copies[m].key) =>
            ~(copies[k].ok /\ copies[m].ok)

\* The fingerprints of the inputs are pairwise disjoint (the base included).
DisjointInputs ==
    \A i, j \in DOMAIN input_paths :
        i # j =>
            extract_annotation_keys(FS[input_paths[i]].pages) \cap
            extract_annotation_keys(FS[input_paths[j]].pages) = {}

\* The number of annotation records of the candidates that satisfy P.
CountRecords(P(_)) ==
    SumSeq([c \in 1..(Len(input_paths) - 1) |->
        Cardinality({i \in DOMAIN Records(input_paths[c + 1]) :
            P(Records(input_paths[c + 1])[i])})])

AnyRecord(a) == TRUE

\* An annotation the merge can re-create: a kind it has a constructor for,
\* with the vertices that constructor needs, and accepted by the library.
Recreatable(a) ==
    /\ ~a.raises
    /\ a.type \in {"FreeText", "Text", "Highlight", "Underline", "StrikeOut",
                    "Ink", "Line", "Square", "Circle", "Polygon", "PolyLine",
                    "Stamp", "Caret"}
    /\ a.type \in {"Ink", "Polygon", "PolyLine"} => a.vertices >= 1
    /\ a.type = "Line" => a.vertices >= 2

NotRecreatable(a) == ~Recreatable(a)

\* C4 as stated: with pairwise disjoint fingerprints, merged_annotations is
\* the number of annotation records of all candidates and
\* failed_annotations is 0.
C4_UnionCompleteness ==
    (Returned /\ DisjointInputs) =>
        /\ stats.merged_annotations = CountRecords(AnyRecord)
        /\ stats.failed_annotations = 0

\* C4 as amended: with pairwise disjoint fingerprints, merged_annotations
\* is the number of candidate records that can be re-created and
\* failed_annotations the number of those that cannot (unsupported kind,
\* missing vertices, rejected by the library); so merged + failed is the
\* number of records, and failed is 0 exactly when every record can be
\* re-created.
C4_UnionOfRecreatable ==
    (Returned /\ DisjointInputs) =>
        /\ stats.merged_annotations = CountRecords(Recreatable)
        /\ stats.failed_annotations = CountRecords(NotRecreatable)

C4_Witness ==
    /\ Returned
    /\ DisjointInputs
    /\ Len(input_paths) = 3
    /\ stats.merged_annotations = 3
    /\ stats.failed_annotations = 0
    /\ CountRecords(AnyRecord) = 3

\* C5: a run fails only for fewer than two inputs or a document that cannot
\* be opened or repaired; every other run goes through all annotations and
\* candidates up to the save (a failure of the final save itself is left
\* aside here).
C5_OnlyFatalCauses ==
    err \in {"none", "ValueError", "CorruptDocument", "WriteError"}

\* C6: no run ends, returning or raising, with a document handle open.
C6_HandlesReleased ==
    pc \in {"done", "raised"} => handles = {}

\* C7: the output is saved at most once, only after the last candidate has
\* been processed and with nothing raised; a run that returns has saved it
\* once, a run that raises has not written it.
C7_SavedOnceAtEnd ==
    /\ Len(output) <= 1
    /\ Len(output) = 1 =>
          /\ ci > Len(input_paths)
          /\ pc \in {"close_base", "finally", "done"}
          /\ err = "none"
          /\ output[1] = base_doc
    /\ pc = "done" => Len(output) = 1
    /\ pc = "raised" => Len(output) = 0

C7_Witness ==
    /\ pc = "done"
    /\ Len(input_paths) = 3
    /\ Len(output) = 1
    /\ \E k, m \in DOMAIN copies :
          copies[k].ok /\ copies[m].ok /\ copies[k].cand = 2 /\ copies[m].cand = 3

\* The calls of copy_annotation that returned True for an annotation of page
\* p (1-based), in the order they were made.
Recreated(p) ==
    SelectSeq(copies, LAMBDA c : c.ok /\ c.key.page = p - 1)

\* c1 is before c2 in candidate order, then page order, then document order.
Before(c1, c2) ==
    \/ c1.cand < c2.cand
    \/ c1.cand = c2.cand /\ c1.key.page < c2.key.page
    \/ c1.cand = c2.cand /\ c1.key.page = c2.key.page /\ c1.pos < c2.pos

\* pages holds, page by page, the base's own annotations and after them the
\* annotations of the calls of Recreated, in their order.
BaseThenRecreated(pages) ==
    \A p \in DOMAIN pages :
        LET own == FS[input_paths[1]].pages[p]
            rec == Recreated(p)
        IN  /\ Len(pages[p]) = Len(own) + Len(rec)
            /\ \A i \in DOMAIN own : pages[p][i] = own[i]
            /\ \A k \in DOMAIN rec :
                  pages[p][Len(own) + k] =
                      NewAnnot(FS[input_paths[rec[k].cand]]
                                  .pages[p][rec[k].pos], rec[k].cand)

\* The annotations of a document with their places, in page-ascending and
\* then document order.
RECURSIVE Occurrences(_, _)
Occurrences(pages, n) ==
    IF n = 0 THEN <<>>
    ELSE Occurrences(pages, n - 1) \o
         [i \in DOMAIN pages[n] |->
             [page |-> n - 1, pos |-> i, annot |-> pages[n][i]]]

\* What a run makes of one candidate, as a function of the candidate and of
\* the seen set it starts with: the calls of copy_annotation and the seen set
\* after them.
RECURSIVE CandidateResult(_, _, _, _, _)
CandidateResult(occ, c, unique, seen, calls) ==
    IF occ = <<>> THEN [seen |-> seen, calls |-> calls]
    ELSE LET key == AnnotationKey(Head(occ).page, Head(occ).annot)
             ok == copy_annotation(Head(occ).annot)
         IN  IF key \in unique
             THEN CandidateResult(Tail(occ), c, unique,
                      IF ok THEN seen \cup {key} ELSE seen,
                      Append(calls, [cand |-> c, key |-> key, ok |-> ok,
                                     pos |-> Head(occ).pos]))
             ELSE CandidateResult(Tail(occ), c, unique, seen, calls)

\* What a run that returns makes of paths, as a function of paths alone: the
\* calls of copy_annotation of the candidates from c on, in order.
RECURSIVE RunResult(_, _, _)
RunResult(paths, c, seen) ==
    IF c > Len(paths) THEN <<>>
    ELSE LET pages == FS[paths[c]].pages
             r == CandidateResult(Occurrences(pages, Len(pages)), c,
                      extract_annotation_keys(pages) \ seen, seen, <<>>)
         IN  r.calls \o RunResult(paths, c + 1, r.seen)

\* The duplicate count of such a run, as a function of paths alone.
RECURSIVE RunDuplicates(_, _, _)
RunDuplicates(paths, c, seen) ==
    IF c > Len(paths) THEN 0
    ELSE LET pages == FS[paths[c]].pages
             keys == extract_annotation_keys(pages)
             r == CandidateResult(Occurrences(pages, Len(pages)), c,
                      keys \ seen, seen, <<>>)
         IN  Cardinality(keys \cap seen) + RunDuplicates(paths, c + 1, r.seen)

\* C14: the calls of copy_annotation come in candidate order, within a
\* candidate in page order and within a page in document order; every page
\* of the base document, and of what is saved, holds the base's own
\* annotations first and after them the re-created ones in the order of
\* these calls; and the calls and counts of a run that returns are a function
\* of input_paths alone, so that two runs on the same inputs agree on them.
C14_RecreationOrder ==
    /\ \A k, m \in DOMAIN copies : k < m => Before(copies[k], copies[m])
    /\ base_doc # <<>> => BaseThenRecreated(base_doc)
    /\ \A k \in DOMAIN output : BaseThenRecreated(output[k])
    /\ Returned =>
          LET calls == RunResult(input_paths, 2,
                           extract_annotation_keys(FS[input_paths[1]].pages))
          IN  /\ copies = calls
              /\ stats.merged_annotations =
                    Len(SelectSeq(calls, LAMBDA c : c.ok))
              /\ stats.failed_annotations =
                    Len(SelectSeq(calls, LAMBDA c : ~c.ok))
              /\ stats.duplicate_annotations =
                    RunDuplicates(input_paths, 2,
                        extract_annotation_keys(FS[input_paths[1]].pages))

\* A saved page that holds an annotation of the base, after it two
\* annotations re-created from the first candidate and after them one
\* re-created from the second.
C14_Witness ==
    /\ Returned
    /\ Len(output) = 1
    /\ \E p \in DOMAIN output[1] :
          /\ Len(FS[input_paths[1]].pages[p]) >= 1
          /\ Len(Recreated(p)) = 3
          /\ Recreated(p)[1].cand = 2
          /\ Recreated(p)[2].cand = 2
          /\ Recreated(p)[3].cand = 3

\* C15: the duplicate counter of a run that returns is the sum, over the
\* candidates, of the number of the candidate's annotations (one per
\* occurrence) minus the number of its fingerprints that were not in seen
\* when it started.
C15_DuplicatePerOccurrence ==
    Returned =>
        stats.duplicate_annotations =
            SumSeq([j \in DOMAIN hist |->
                       Len(Records(input_paths[j + 1])) -
                       Cardinality(hist[j].unique)])

\* The fingerprints of the annotations re-created so far.
RecreatedKeys == {copies[k].key : k \in {m \in DOMAIN copies : copies[m].ok}}

\* The fingerprints of the base document once it has been read, none before.
BaseKeysNow ==
    IF base_doc = <<>> THEN {}
    ELSE extract_annotation_keys(FS[input_paths[1]].pages)

\* all_seen_keys is the base's fingerprints and those of the annotations
\* re-created; the fingerprints a candidate starts with as unique are those
\* of its fingerprints that are neither; and a run that returns has called
\* copy_annotation for each of them.
SeenIsBaseAndRecreated ==
    /\ all_seen_keys = BaseKeysNow \cup RecreatedKeys
    /\ \A j \in DOMAIN hist : \A f \in hist[j].keys :
          f \in hist[j].unique <=>
              /\ f \notin BaseKeysNow
              /\ \A k \in DOMAIN copies :
                    (copies[k].key = f /\ copies[k].cand < j + 1) =>
                        ~copies[k].ok
    /\ Returned =>
          \A j \in DOMAIN hist : \A f \in hist[j].unique :
              CopiesOf(j + 1, f) # {}

\* C16: at every point of a run all_seen_keys is the base's fingerprints plus
\* those of the annotations whose re-creation succeeded, a fingerprint whose
\* re-creation failed is attempted again in a later candidate that holds it,
\* and no step takes a fingerprint out of all_seen_keys.
C16_SeenGrowsBySuccess ==
    /\ []SeenIsBaseAndRecreated
    /\ [][all_seen_keys \subseteq all_seen_keys']_vars

\* A fingerprint whose re-creation failed in candidate 2 and succeeded in
\* candidate 3, where it entered all_seen_keys.
C16_Witness ==
    /\ Returned
    /\ \E k, m \in DOMAIN copies :
          /\ copies[k].key = copies[m].key
          /\ copies[k].cand = 2 /\ ~copies[k].ok
          /\ copies[m].cand = 3 /\ copies[m].ok
          /\ copies[k].key \in all_seen_keys
          /\ copies[k].key \notin BaseKeysNow

\* ------------------------------------------------------------------------
\* Properties of the fingerprint (specification SpecRound)
\* ------------------------------------------------------------------------

Abs(x) == IF x < 0 THEN -x ELSE x

\* The rects differ by less than 0.05 in every coordinate.
CloseRects == \A i \in 1..4 : Abs(rect_a[i] - rect_b[i]) < 5

\* The rects differ by at least 0.15 in some coordinate.
FarRects == \E i \in 1..4 : Abs(rect_a[i] - rect_b[i]) >= 15

\* C8 as stated: rects closer than 0.05 in every coordinate have equal
\* fingerprints, rects 0.15 or more apart in some coordinate unequal ones.
C8_FingerprintRounding ==
    rpc = "done" =>
        /\ CloseRects => key_a = key_b
        /\ FarRects => key_a # key_b

\* C8 as amended: rects 0.15 or more apart in some coordinate have unequal
\* fingerprints; rects closer than 0.05 in every coordinate have rounded
\* rects at most 0.1 apart in every coordinate (equal unless a coordinate
\* pair lies on both sides of a rounding boundary, as 0.04 and 0.06 do);
\* and equal fingerprints mean rects at most 0.1 apart in every coordinate.
C8_RoundingSeparates ==
    rpc = "done" =>
        /\ FarRects => key_a # key_b
        /\ CloseRects =>
              \A i \in 1..4 : Abs(key_a.rect[i] - key_b.rect[i]) <= 10
        /\ key_a = key_b =>
              \A i \in 1..4 : Abs(rect_a[i] - rect_b[i]) <= 10

C8_Witness ==
    /\ rpc = "done"
    /\ Abs(rect_a[1] - rect_b[1]) >= 15
    /\ rect_a[4] # rect_b[4]
    /\ Abs(rect_a[4] - rect_b[4]) < 5
    /\ key_a.rect[4] = key_b.rect[4]
    /\ key_a # key_b

\* ------------------------------------------------------------------------
\* Properties of the imports (specification SpecImport)
\* ------------------------------------------------------------------------

\* The positions in the Annots of page p (1-based) of the objects the import
\* has added.
AddedAt(p) ==
    {i \in DOMAIN pdf[p].annots : i > Len(TargetFS[target].pages[p].annots)}

\* The annotations whose page the target has.
OnExistingPage ==
    {i \in DOMAIN annotations :
        annotations[i].page < Len(TargetFS[target].pages)}

\* A Polygon or PolyLine annotation dict with an empty or absent vertex list.
EmptyPolygon(a) ==
    /\ Lower(a.type) \in {"polygon", "polyline"}
    /\ ~HasList(a, "vertices")

\* C9: a Polygon or PolyLine without vertices produces no persisted object
\* (no added Polygon/PolyLine object lacks Vertices) and is not counted as
\* imported.
C9_EmptyPolygonNotPersisted ==
    /\ \A p \in DOMAIN pdf : \A i \in AddedAt(p) :
          pdf[p].annots[i].Subtype \in {"Polygon", "PolyLine"} =>
              "Vertices" \in DOMAIN pdf[p].annots[i]
    /\ (ipc = "done" /\ annotations # <<>>) =>
          imported_count =
              Cardinality({i \in OnExistingPage :
                              ~EmptyPolygon(annotations[i])})

\* C10: an annotation of a kind outside the enumeration is written as a
\* complete Text annotation: every added object of subtype Text has the
\* Text-specific fields, Open = false among them.
C10_FallbackIsCompleteText ==
    \A p \in DOMAIN pdf : \A i \in AddedAt(p) :
        pdf[p].annots[i].Subtype = "Text" =>
            /\ "Open" \in DOMAIN pdf[p].annots[i]
            /\ pdf[p].annots[i].Open = FALSE
            /\ "Name" \in DOMAIN pdf[p].annots[i]

\* The annotation dict the added object at position i of page p was made from.
SourceOf(p, i) ==
    PageAnnots(annotations, p - 1)[i - Len(TargetFS[target].pages[p].annots)]

\* flat is the array of the points pts, each x as it is and each y flipped on
\* a page of height h (flip) or as it is.
IsPointsOf(flat, pts, h, flip) ==
    /\ Len(flat) = 2 * Len(pts)
    /\ \A k \in DOMAIN pts :
          /\ flat[2 * k - 1] = pts[k][1]
          /\ flat[2 * k] = IF flip THEN h - pts[k][2] ELSE pts[k][2]

\* The two endpoints a PyMuPDF Line dict gives, as points.
Endpoints(a) ==
    IF IsFlat(a)
    THEN << <<a.vertices[1], a.vertices[2]>>,
            <<a.vertices[3], a.vertices[4]>> >>
    ELSE <<a.vertices[1], a.vertices[2]>>

\* C11: of an object translated from a screen-space dict, every point-valued
\* field that is written holds the input's points with x unchanged and y
\* replaced by page_height - y (the Rect spans the two flipped corners, each
\* array is flipped on its own); of an object translated from a page-space
\* dict, every such field holds exactly the input values.
C11_CoordinateHandling ==
    \A p \in DOMAIN pdf : \A i \in AddedAt(p) :
        LET obj == pdf[p].annots[i]
            a == SourceOf(p, i)
            h == PageHeight(TargetFS[target].pages[p])
        IN  IF iop = "direct"
            THEN /\ obj.Rect[1] = a.rect[1]
                 /\ obj.Rect[3] = a.rect[3]
                 /\ {obj.Rect[2], obj.Rect[4]} =
                        {h - a.rect[2], h - a.rect[4]}
                 /\ "InkList" \in DOMAIN obj =>
                        /\ Len(obj.InkList) = Len(a.vertices)
                        /\ \A k \in DOMAIN obj.InkList :
                              IsPointsOf(obj.InkList[k], a.vertices[k], h,
                                         TRUE)
                 /\ "L" \in DOMAIN obj =>
                        IsPointsOf(obj.L, Endpoints(a), h, TRUE)
                 /\ "QuadPoints" \in DOMAIN obj =>
                        IsPointsOf(obj.QuadPoints, a.vertices, h, TRUE)
                 /\ "Vertices" \in DOMAIN obj =>
                        IsPointsOf(obj.Vertices, a.vertices, h, TRUE)
            ELSE /\ obj.Rect = a.rect
                 /\ "InkList" \in DOMAIN obj =>
                        /\ Len(obj.InkList) = Len(a.inklist)
                        /\ \A k \in DOMAIN obj.InkList :
                              IsPointsOf(obj.InkList[k], a.inklist[k], h,
                                         FALSE)
                 /\ "L" \in DOMAIN obj => obj.L = a.start \o a.end
                 /\ "QuadPoints" \in DOMAIN obj =>
                        obj.QuadPoints = a.quadpoints
                 /\ "Vertices" \in DOMAIN obj => obj.Vertices = a.vertices

\* A finished direct import that wrote an ink stroke and a line, both with
\* y values the flip has changed.
C11_Witness ==
    /\ ipc = "done"
    /\ iop = "direct"
    /\ \E p \in DOMAIN pdf : \E i, j \in AddedAt(p) :
          /\ "InkList" \in DOMAIN pdf[p].annots[i]
          /\ pdf[p].annots[i].InkList[1][2] # SourceOf(p, i).vertices[1][1][2]
          /\ "L" \in DOMAIN pdf[p].annots[j]
          /\ pdf[p].annots[j].L[2] # Endpoints(SourceOf(p, j))[1][2]

\* ------------------------------------------------------------------------
\* Properties of the y flip (specification SpecFlip)
\* ------------------------------------------------------------------------

WellFormed(rect) == rect[1] <= rect[3] /\ rect[2] <= rect[4]

\* The y values of the point or rect given.
YsOf(shape) == IF Len(shape) = 2 THEN {shape[2]} ELSE {shape[2], shape[4]}

\* No subtraction of the first flip rounds.
ExactFlip == \A y \in YsOf(forig) : FlipY(y, fh) = fh - y

\* C12 as stated: for every point, rect and page height, the flip leaves x
\* alone, the flipped rect of a well-formed rect is well-formed, and two
\* flips return the point or rect given.
C12_FlipRoundTrip ==
    /\ fcur # <<>> => fcur[1] = forig[1]
    /\ Len(fcur) = 4 => WellFormed(fcur) /\ fcur[3] = forig[3]
    /\ flips = 2 => fcur = forig

\* C12: the flip leaves x alone and keeps a well-formed rect well-formed;
\* two flips return the point or rect given whenever no subtraction of the
\* first flip rounds, and otherwise return each y within one unit in the last
\* place of page_height - y.
C12_FlipRoundTripWhenExact ==
    /\ fcur # <<>> => fcur[1] = forig[1]
    /\ Len(fcur) = 4 => WellFormed(fcur) /\ fcur[3] = forig[3]
    /\ (flips = 2 /\ ExactFlip) => fcur = forig
    /\ flips = 2 =>
          /\ Abs(fcur[2] - forig[2]) <= Ulp(Abs(fh - forig[2]))
          /\ Len(fcur) = 4 =>
                Abs(fcur[4] - forig[4]) <= Ulp(Abs(fh - forig[4]))

\* A rect of positive height, flipped twice without rounding on a page it
\* lies on, away from the page's middle.
C12_Witness ==
    /\ flips = 2
    /\ Len(forig) = 4
    /\ forig[2] < forig[4]
    /\ forig[4] < fh
    /\ FlipRect(forig, fh) # forig
    /\ ExactFlip
    /\ fcur = forig

\* ------------------------------------------------------------------------
\* Properties of main (specification SpecCli)
\* ------------------------------------------------------------------------

\* The command line names fewer than two inputs, an input that does not
\* exist, or an output that is one of the inputs under another or the same
\* spelling.
BadCommandLine ==
    \/ Len(argv) < 3
    \/ \E i \in 2..Len(argv) :
          ~(argv[i].name \in DOMAIN FS /\ argv[i].dir \in {"", Cwd})
    \/ \E i \in 2..Len(argv) :
          /\ argv[i].name = argv[1].name
          /\ {argv[i].dir, argv[1].dir} \subseteq {"", Cwd}

\* C13: on a bad command line main exits with 1 and merge_pdf_annotations is
\* never entered (no document opened, no temp directory, nothing written);
\* otherwise the exit code is 0 exactly when merge_pdf_annotations returned
\* and 1 when it raised.
C13_CliExitCodes ==
    /\ BadCommandLine =>
          /\ pc = "idle"
          /\ handles = {}
          /\ ~temp_dir
          /\ stats = NoStats
          /\ output = <<>>
    /\ cpc = "exited" =>
          /\ BadCommandLine => exit_code = 1
          /\ ~BadCommandLine => pc \in {"done", "raised"}
          /\ exit_code = 0 <=> pc = "done"
          /\ exit_code = 1 <=> pc # "done"
          /\ pc = "done" => err = "none" /\ Len(output) = 1
          /\ pc = "raised" => err # "none"

\* main has refused an output written relative to the working directory
\* that names an input written with its absolute path.
C13_Witness ==
    /\ cpc = "exited"
    /\ exit_code = 1
    /\ Len(argv) >= 3
    /\ \A i \in 2..Len(argv) : exists(argv[i])
    /\ argv[1].dir = ""
    /\ \E i \in 2..Len(argv) : argv[i] = Path(Cwd, argv[1].name)
    /\ pc = "idle"

\* The annotations page p (1-based) of the target holds before the import.
PreExisting(p) ==
    IF TargetFS[target].pages[p].annots_is_array
    THEN TargetFS[target].pages[p].annots ELSE <<>>

====
